---- MODULE Spec2Model ----
(***************************************************************************)
(* Order lifecycle of the pizza counter point of sale: the order draft of  *)
(* the CreateOrder page (cart, validation, two-step submission), the       *)
(* orders and order_items tables of the store, and the status transitions  *)
(* issued by the Orders list and the OrderSummary page.                    *)
(* Money is in integer cents.                                              *)
(***************************************************************************)
EXTENDS Integers, Sequences, FiniteSets, Bags, TLC

VARIABLES
    \* ---- the store (supabase tables)
    dbOrders,          \* public.orders: sequence of rows, the row id is its index
    dbOrderItems,      \* public.order_items: sequence of rows
    \* ---- Orders page, one component instance per client
    orders,            \* orders[c]: useState<Order[]>, id -> status copy; <<>> before the fetch
    fetched,           \* fetched[c]: fetchOrders of the mount has run
    \* ---- OrderSummary page, one component instance per client
    order,             \* order[c]: useState<OrderDetails | null>
    completing,        \* completing[c]: useState(false)
    \* ---- the toaster of the status pages
    statusToast,       \* the toast raised last: who raised it and what it says
    \* ---- status update requests between a page and the store
    requests,          \* bag of the requests in flight
    \* ---- CreateOrder page (one draft)
    orderItems,        \* useState<OrderItem[]>: the cart
    orderType, tableNumber, customerName, customerAddress, customerLocation,
    submitting,        \* useState(false)
    selectedProduct,   \* useState<Product | null>
    pc,                \* position of handleSubmitOrder: idle, awaitOrder, awaitItems
    closure,           \* what the running handleSubmitOrder captured and computed
    toasts,            \* toasts raised by the latest handleSubmitOrder call
    route,             \* the page shown: create, or order-summary with the order id
    \* ---- history
    calls,             \* the cart calls made on this draft, oldest first
    createdFrom,       \* order id -> cart of the submission that inserted it
    \* ---- the catalog
    dbProducts,        \* public.products: product id -> price and is_active
    products,          \* CreateOrder page: useState<Product[]>, the fetched active products
    \* ---- the back office
    now,               \* the clock, in whole seconds since the first midnight
    dbSalesReports,    \* public.sales_reports: sequence of rows
    salesFiles,        \* storage bucket 'sales': the files, each with its path
    stats,             \* Dashboard page: useState of the four counters
    \* ---- Orders page: the list as fetched and the filter controls
    listed,            \* listed[c]: the order ids in the order the fetch returned them
    statusFilter,      \* statusFilter[c]: useState("all")
    typeFilter,        \* typeFilter[c]: useState("all")
    searchQuery,       \* searchQuery[c]: useState(""), a sequence of characters
    \* ---- product listings
    dbProductListings, \* public.product_listings: set of rows
    listingFiles,      \* storage bucket 'listings': the paths that hold a file
    listingOps,        \* bag of the export and delete handlers that are running
    productListings,   \* productListings[c]: Admin page, useState of the listing rows
    listingIds         \* the number of ids product_listings has handed out

storeVars  == <<dbOrders, dbOrderItems>>
listVars   == <<orders, fetched>>
summaryVars == <<order, completing>>
statusVars == <<orders, fetched, order, completing, statusToast, requests>>
formVars   == <<orderType, tableNumber, customerName, customerAddress, customerLocation>>
draftVars  == <<orderItems, orderType, tableNumber, customerName, customerAddress,
                customerLocation, submitting, selectedProduct, pc, closure, toasts,
                route, calls, createdFrom>>
catalogVars == <<dbProducts, products>>
reportVars == <<now, dbSalesReports, salesFiles, stats>>
backOfficeVars == <<dbProducts, products, now, dbSalesReports, salesFiles, stats>>
viewVars == <<listed, statusFilter, typeFilter, searchQuery>>
listingVars == <<dbProductListings, listingFiles, listingOps, productListings,
                 listingIds>>
vars == <<dbOrders, dbOrderItems, orders, fetched, order, completing,
          statusToast, requests, orderItems, orderType, tableNumber, customerName,
          customerAddress, customerLocation, submitting, selectedProduct, pc, closure,
          toasts, route, calls, createdFrom, dbProducts, products, now,
          dbSalesReports, salesFiles, stats, listed, statusFilter, typeFilter,
          searchQuery, dbProductListings, listingFiles, listingOps,
          productListings, listingIds>>

----------------------------------------------------------------------------
\* Bounds of the model
MaxInflight == 2       \* status update requests in flight at once
MaxCalls == 4          \* cart calls made on one draft
MaxQuantity == 2       \* largest quantity passed to updateQuantity or reached by a button
MaxOrders == 1         \* order rows the store holds

\* two signed-in sessions, each holding an Orders page and an OrderSummary page
Clients == {"c1", "c2"}

Null == "null"
NoOrder == [id |-> 0, status |-> Null]
NoToast == [client |-> Null, page |-> Null, title |-> Null]

\* profile.id of the signed-in employee who takes the orders
ProfileId == "p1"

----------------------------------------------------------------------------
\* The catalog: two of the seed products
MargheritaPrice == 1299
SodaPrice == 299
Margherita == [id |-> "margherita", price |-> MargheritaPrice]
Soda == [id |-> "soda", price |-> SodaPrice]
Products == <<Margherita, Soda>>

\* a third seed price, the one an admin may give a product in the edit dialog
PepperoniPrice == 1499

\* public.products after the seed: every product active at its seed price
SeedProducts ==
    [id \in {Margherita.id, Soda.id} |->
        [price |-> IF id = Margherita.id THEN MargheritaPrice ELSE SodaPrice,
         is_active |-> TRUE]]

\* the product ids in the order of the product names
NameOrder == <<Margherita.id, Soda.id>>

\* the rows of select('*').eq('is_active', true).order('name') on a products table
ActiveProducts(table) ==
    LET active == SelectSeq(NameOrder, LAMBDA id : table[id].is_active)
    IN [i \in 1..Len(active) |-> [id |-> active[i], price |-> table[active[i]].price]]

----------------------------------------------------------------------------
\* Time, in whole seconds since the first midnight of the model
SecondsPerDay == 86400
OpeningTime == 32400          \* 09:00:00 of the first day
LastSecond == 86399           \* 23:59:59 of the first day

\* date.toISOString().split('T')[0]: the date of an instant, as a day number
dateStr(t) == t \div SecondsPerDay
\* `${dateStr}T00:00:00`
DayStart(d) == d * SecondsPerDay
\* a day window whose end is the next midnight
DayEndAtMidnight(d) == (d + 1) * SecondsPerDay
\* `${dateStr}T23:59:59`
DayEnd(d) == d * SecondsPerDay + LastSecond

NoStats == [totalOrders |-> 0, pendingOrders |-> 0, todayRevenue |-> 0,
            activeProducts |-> 0]

----------------------------------------------------------------------------
\* public.orders.status: CHECK (status IN ('pending', 'completed', 'cancelled'))
StatusCheckWithInProgress == {"pending", "in_progress", "completed", "cancelled"}
StatusCheck == {"pending", "completed", "cancelled"}

\* the order the spec gives the statuses: pending < in_progress < completed
Rank(s) == CASE s = "pending" -> 0
             [] s = "in_progress" -> 1
             [] s = "completed" -> 2
             [] OTHER -> 3

\* rows a finished submission leaves in the store (dine-in table 5: 2 Margherita, 1 Soda;
\* delivery: 1 Margherita)
SampleOrders == <<
    [employee_id |-> ProfileId,
     order_type |-> "dine_in", table_number |-> "5", customer_name |-> Null,
     customer_address |-> Null, customer_location |-> Null,
     total_amount |-> 2 * MargheritaPrice + SodaPrice, status |-> "pending",
     created_at |-> 0],
    [employee_id |-> ProfileId,
     order_type |-> "delivery", table_number |-> Null, customer_name |-> "x",
     customer_address |-> "x", customer_location |-> "x",
     total_amount |-> MargheritaPrice, status |-> "pending",
     created_at |-> OpeningTime] >>
SampleOrderItems == <<
    [order_id |-> 1, product_id |-> "margherita", quantity |-> 2,
     unit_price |-> MargheritaPrice, subtotal |-> 2 * MargheritaPrice],
    [order_id |-> 1, product_id |-> "soda", quantity |-> 1,
     unit_price |-> SodaPrice, subtotal |-> SodaPrice],
    [order_id |-> 2, product_id |-> "margherita", quantity |-> 1,
     unit_price |-> MargheritaPrice, subtotal |-> MargheritaPrice] >>

OrderIds == 1..Len(dbOrders)

----------------------------------------------------------------------------
\* Orders page and OrderSummary page

InFlight == BagToSet(requests)
Send(r) == requests (+) SetToBag({r})
Drop(r) == requests (-) SetToBag({r})

\* the answers of select ... order('created_at', { ascending: false }): the ids of
\* the rows, newest first, rows created at the same instant in any order
NewestFirst(rows) ==
    {ids \in [1..Len(rows) -> 1..Len(rows)] :
        /\ \A i, j \in 1..Len(rows) : i # j => ids[i] # ids[j]
        /\ \A i, j \in 1..Len(rows) :
              i < j => rows[ids[i]].created_at >= rows[ids[j]].created_at}

\* fetchOrders, run once by the mount effect: the page copies the rows of the store
fetchOrders(c) ==
    /\ ~fetched[c]
    /\ fetched' = [fetched EXCEPT ![c] = TRUE]
    /\ orders' = [orders EXCEPT ![c] = [o \in OrderIds |-> dbOrders[o].status]]
    /\ \E ids \in NewestFirst(dbOrders) : listed' = [listed EXCEPT ![c] = ids]
    /\ UNCHANGED <<statusFilter, typeFilter, searchQuery, listingVars, backOfficeVars, storeVars, summaryVars, statusToast, requests, draftVars>>

\* a button that cancels a pending order where the page has Start Preparation
ButtonTargetCancels(status) == IF status = "pending" THEN "cancelled" ELSE "completed"

\* the one status button an order card shows: Start Preparation on a pending order,
\* Mark Complete on an in_progress one, none otherwise
ButtonTarget(status) == IF status = "pending" THEN "in_progress" ELSE "completed"
HasButton(status) == status \in {"pending", "in_progress"}

\* updateOrderStatus up to its await: the request leaves with the list this render held
updateOrderStatus(c, o) ==
    /\ fetched[c]
    /\ o \in DOMAIN orders[c]
    /\ HasButton(orders[c][o])
    /\ BagCardinality(requests) < MaxInflight
    /\ requests' = Send([phase |-> "sent", client |-> c, page |-> "list", id |-> o,
                         newStatus |-> ButtonTarget(orders[c][o]),
                         captured |-> orders[c]])
    /\ UNCHANGED <<viewVars, listingVars, backOfficeVars, storeVars, listVars, summaryVars, statusToast, draftVars>>

\* fetchOrder, run once by the mount effect of /order-summary/:orderId
fetchOrder(c, o) ==
    /\ order[c] = NoOrder
    /\ o \in OrderIds
    /\ order' = [order EXCEPT ![c] = [id |-> o, status |-> dbOrders[o].status]]
    /\ UNCHANGED <<viewVars, listingVars, backOfficeVars, storeVars, listVars, completing, statusToast, requests, draftVars>>

\* handleCompleteOrder up to its await; the button shows on a pending order only and
\* is disabled while completing
handleCompleteOrder(c) ==
    /\ order[c] # NoOrder
    /\ order[c].status = "pending"
    /\ ~completing[c]
    /\ BagCardinality(requests) < MaxInflight
    /\ completing' = [completing EXCEPT ![c] = TRUE]
    /\ requests' = Send([phase |-> "sent", client |-> c, page |-> "summary",
                         id |-> order[c].id, newStatus |-> "completed",
                         captured |-> <<order[c].status>>])
    /\ UNCHANGED <<viewVars, listingVars, backOfficeVars, storeVars, listVars, order, statusToast, draftVars>>

\* an UPDATE that has lost its WHERE clause: every row takes the new status
storeUpdateEveryRow(r, fault) ==
    /\ r \in InFlight
    /\ r.phase = "sent"
    /\ LET accepted == ~fault /\ r.newStatus \in StatusCheck
           outcome == IF accepted THEN "ok" ELSE IF fault THEN "failed" ELSE "rejected"
       IN /\ dbOrders' = IF accepted
                           THEN [o \in DOMAIN dbOrders |->
                                   [dbOrders[o] EXCEPT !.status = r.newStatus]]
                           ELSE dbOrders
          /\ requests' = Drop(r) (+) SetToBag({[r EXCEPT !.phase = outcome]})
    /\ UNCHANGED <<viewVars, listingVars, backOfficeVars, dbOrderItems, listVars, summaryVars, statusToast, draftVars>>

\* the store runs UPDATE orders SET status = newStatus WHERE id = ...; the CHECK on
\* status rejects the statement, and the transport may fail it. The session is taken
\* to pass the row-level policy of the table (access control is outside this model)
storeUpdate(r, fault) ==
    /\ r \in InFlight
    /\ r.phase = "sent"
    /\ LET accepted == ~fault /\ r.newStatus \in StatusCheck
           outcome == IF accepted THEN "ok" ELSE IF fault THEN "failed" ELSE "rejected"
       IN /\ dbOrders' = IF accepted
                           THEN [dbOrders EXCEPT ![r.id].status = r.newStatus]
                           ELSE dbOrders
          /\ requests' = Drop(r) (+) SetToBag({[r EXCEPT !.phase = outcome]})
    /\ UNCHANGED <<viewVars, listingVars, backOfficeVars, dbOrderItems, listVars, summaryVars, statusToast, draftVars>>

responseShowsNewStatusAnyway(r) ==
    /\ r \in InFlight
    /\ r.phase \in {"ok", "failed", "rejected"}
    /\ LET c == r.client
       IN IF r.page = "list"
            THEN /\ orders' = [orders EXCEPT ![c] =
                                 [r.captured EXCEPT ![r.id] = r.newStatus]]
                 /\ UNCHANGED <<fetched, summaryVars>>
            ELSE /\ order' = [order EXCEPT ![c] =
                                [id |-> r.id, status |-> "completed"]]
                 /\ completing' = [completing EXCEPT ![c] = FALSE]
                 /\ UNCHANGED listVars
    /\ statusToast' = [client |-> r.client, page |-> r.page,
                        title |-> IF r.phase = "ok" THEN "Success" ELSE "Error"]
    /\ requests' = Drop(r)
    /\ UNCHANGED <<viewVars, listingVars, backOfficeVars, storeVars, draftVars>>

\* the rest of updateOrderStatus / handleCompleteOrder after the await
response(r) ==
    /\ r \in InFlight
    /\ r.phase \in {"ok", "failed", "rejected"}
    /\ LET c == r.client
           won == r.phase = "ok"
       IN IF r.page = "list"
            THEN /\ orders' = IF won
                                THEN [orders EXCEPT ![c] =
                                        [r.captured EXCEPT ![r.id] = r.newStatus]]
                                ELSE orders
                 /\ UNCHANGED <<fetched, summaryVars>>
            ELSE /\ order' = IF won
                               THEN [order EXCEPT ![c] =
                                       [id |-> r.id, status |-> "completed"]]
                               ELSE order
                 /\ completing' = [completing EXCEPT ![c] = FALSE]
                 /\ UNCHANGED listVars
    /\ statusToast' = [client |-> r.client, page |-> r.page,
                        title |-> IF r.phase = "ok" THEN "Success" ELSE "Error"]
    /\ requests' = Drop(r)
    /\ UNCHANGED <<viewVars, listingVars, backOfficeVars, storeVars, draftVars>>

----------------------------------------------------------------------------
\* CreateOrder page

\* what the form inputs can hold: the number input is empty, an integer, or a
\* number parseInt cannot read; a text input is empty or filled
TableInputs == {"", "5", ".5"}
TextInputs == {"", "x"}
OrderTypes == {"dine_in", "delivery"}

ProductIds == {Products[i].id : i \in 1..Len(Products)}

\* orderItems.find(item => item.product.id === product.id)
HasItem(items, productId) == \E i \in 1..Len(items) : items[i].product.id = productId

\* orderItems.filter(item => item.product.id !== productId)
RECURSIVE FilterOut(_, _)
FilterOut(items, productId) ==
    IF items = <<>> THEN <<>>
    ELSE IF Head(items).product.id = productId
           THEN FilterOut(Tail(items), productId)
           ELSE <<Head(items)>> \o FilterOut(Tail(items), productId)

\* a variant of addToOrder that never merges: every click appends an entry
addToOrderAlwaysAppends(product) ==
    /\ orderItems' = Append(orderItems, [product |-> product, quantity |-> 1])
    /\ selectedProduct' = product.id

\* addToOrder: one more of an entry already in the cart, else a new entry of quantity 1
\* at the end; the clicked product becomes the selected one
addToOrder(product) ==
    /\ orderItems' =
          IF HasItem(orderItems, product.id)
            THEN [i \in 1..Len(orderItems) |->
                    IF orderItems[i].product.id = product.id
                      THEN [orderItems[i] EXCEPT !.quantity = @ + 1]
                      ELSE orderItems[i]]
            ELSE Append(orderItems, [product |-> product, quantity |-> 1])
    /\ selectedProduct' = product.id

\* updateQuantity: 0 removes the entry, any other number becomes its quantity
updateQuantity(productId, newQuantity) ==
    orderItems' =
        IF newQuantity = 0
          THEN FilterOut(orderItems, productId)
          ELSE [i \in 1..Len(orderItems) |->
                  IF orderItems[i].product.id = productId
                    THEN [orderItems[i] EXCEPT !.quantity = newQuantity]
                    ELSE orderItems[i]]

\* a reduce whose callback drops the accumulator: the total is the last subtotal
getTotalAmountLastOnly(items) ==
    IF items = <<>> THEN 0
    ELSE items[Len(items)].product.price * items[Len(items)].quantity

\* getTotalAmount: orderItems.reduce((total, item) => total + price * quantity, 0),
\* a fold from the left
RECURSIVE reduce(_, _)
reduce(items, total) ==
    IF items = <<>> THEN total
    ELSE reduce(Tail(items), total + Head(items).product.price * Head(items).quantity)

getTotalAmount(items) == reduce(items, 0)

\* parseInt of the table number input as it is sent in the JSON body: the integer,
\* or null where parseInt gives NaN
parseInt(text) == IF text = "5" THEN "5" ELSE Null

\* the toasts of handleSubmitOrder
EmptyOrder == "Please add items to your order"
MissingTableNumber == "Please enter a table number for dine-in orders"
MissingDeliveryInfo == "Please fill in all delivery information"
Failed == "Failed to create order"
Created == "Order created successfully!"
ErrorToast(description) == [title |-> "Error", description |-> description]
SuccessToast(description) == [title |-> "Success", description |-> description]

\* a validation that looks at the cart only
ValidateCartOnly(items, type, table, name, address, location) ==
    IF Len(items) = 0 THEN EmptyOrder ELSE "ok"

\* a validation that looks at the type-specific fields before the cart
ValidateFieldsFirst(items, type, table, name, address, location) ==
    IF type = "dine_in" /\ table = "" THEN MissingTableNumber
    ELSE IF type = "delivery" /\ (name = "" \/ address = "" \/ location = "")
      THEN MissingDeliveryInfo
    ELSE IF Len(items) = 0 THEN EmptyOrder
    ELSE "ok"

\* a validation whose delivery rule looks at the customer name only
ValidateNameOnly(items, type, table, name, address, location) ==
    IF Len(items) = 0 THEN EmptyOrder
    ELSE IF type = "dine_in" /\ table = "" THEN MissingTableNumber
    ELSE IF type = "delivery" /\ name = "" THEN MissingDeliveryInfo
    ELSE "ok"

\* the three guards at the head of handleSubmitOrder, in their order; "ok" when none
\* returns
Validate(items, type, table, name, address, location) ==
    IF Len(items) = 0 THEN EmptyOrder
    ELSE IF type = "dine_in" /\ table = "" THEN MissingTableNumber
    ELSE IF type = "delivery" /\ (name = "" \/ address = "" \/ location = "")
      THEN MissingDeliveryInfo
    ELSE "ok"

CreateRoute == [page |-> "create", id |-> 0]
NoClosure == [orderItems |-> <<>>, orderData |-> Null, id |-> 0]

\* orderData of handleSubmitOrder
OrderData(items, type, table, name, address, location) ==
    [employee_id |-> ProfileId,
     order_type |-> type,
     table_number |-> IF type = "dine_in" THEN parseInt(table) ELSE Null,
     customer_name |-> IF type = "delivery" THEN name ELSE Null,
     customer_address |-> IF type = "delivery" THEN address ELSE Null,
     customer_location |-> IF type = "delivery" THEN location ELSE Null,
     total_amount |-> getTotalAmount(items),
     status |-> "pending"]

\* order item rows whose subtotal leaves the quantity out
OrderItemsDataUnitSubtotal(items, orderId) ==
    [i \in 1..Len(items) |->
        [order_id |-> orderId,
         product_id |-> items[i].product.id,
         quantity |-> items[i].quantity,
         unit_price |-> items[i].product.price,
         subtotal |-> items[i].product.price]]

\* orderItemsData of handleSubmitOrder
OrderItemsData(items, orderId) ==
    [i \in 1..Len(items) |->
        [order_id |-> orderId,
         product_id |-> items[i].product.id,
         quantity |-> items[i].quantity,
         unit_price |-> items[i].product.price,
         subtotal |-> items[i].product.price * items[i].quantity]]

\* a handler that forgets setSubmitting(true): the button stays enabled while the
\* inserts are awaited
handleSubmitOrderLeavesButtonEnabled ==
    /\ route.page = "create"
    /\ LET error == Validate(orderItems, orderType, tableNumber, customerName,
                             customerAddress, customerLocation)
       IN IF error # "ok"
            THEN /\ toasts' = <<ErrorToast(error)>>
                 /\ UNCHANGED <<pc, closure>>
            ELSE /\ toasts' = <<>>
                 /\ pc' = "awaitOrder"
                 /\ closure' = [orderItems |-> orderItems,
                                orderData |-> OrderData(orderItems, orderType,
                                                tableNumber, customerName,
                                                customerAddress, customerLocation),
                                id |-> 0]
    /\ UNCHANGED <<viewVars, listingVars, backOfficeVars, storeVars, statusVars,
                   orderItems, formVars, selectedProduct, route, calls, createdFrom,
                   submitting>>

\* handleSubmitOrder up to its first await: a failed guard toasts and returns; else
\* submitting is set and the insert of the order row leaves with the state this
\* render held
handleSubmitOrder ==
    /\ route.page = "create"
    /\ LET error == Validate(orderItems, orderType, tableNumber, customerName,
                             customerAddress, customerLocation)
       IN IF error # "ok"
            THEN /\ toasts' = <<ErrorToast(error)>>
                 /\ UNCHANGED <<submitting, pc, closure>>
            ELSE /\ toasts' = <<>>
                 /\ submitting' = TRUE
                 /\ pc' = "awaitOrder"
                 /\ closure' = [orderItems |-> orderItems,
                                orderData |-> OrderData(orderItems, orderType,
                                                tableNumber, customerName,
                                                customerAddress, customerLocation),
                                id |-> 0]
    /\ UNCHANGED <<viewVars, listingVars, backOfficeVars, storeVars, statusVars, orderItems, formVars, selectedProduct, route,
                   calls, createdFrom>>

\* the row the store keeps for an inserted order: created_at takes its default, now()
StoredOrder(data, t) ==
    [employee_id |-> data.employee_id,
     order_type |-> data.order_type,
     table_number |-> data.table_number,
     customer_name |-> data.customer_name,
     customer_address |-> data.customer_address,
     customer_location |-> data.customer_location,
     total_amount |-> data.total_amount,
     status |-> data.status,
     created_at |-> t]

\* a handler without its finally block: an error of the first insert leaves
\* submitting set
insertOrderKeepsSubmitting(fault) ==
    /\ pc = "awaitOrder"
    /\ IF fault
         THEN /\ toasts' = Append(toasts, ErrorToast(Failed))
              /\ pc' = "idle"
              /\ closure' = NoClosure
              /\ UNCHANGED <<dbOrders, createdFrom, now>>
         ELSE /\ now' = now + 1
              /\ dbOrders' = Append(dbOrders, StoredOrder(closure.orderData, now'))
              /\ createdFrom' = Append(createdFrom, closure.orderItems)
              /\ closure' = [closure EXCEPT !.id = Len(dbOrders) + 1]
              /\ pc' = "awaitItems"
              /\ UNCHANGED toasts
    /\ UNCHANGED <<viewVars, listingVars, catalogVars, dbSalesReports, salesFiles,
                   stats, dbOrderItems, statusVars, orderItems, formVars,
                   selectedProduct, route, calls, submitting>>

\* the store answers the insert of the order row: on an error the handler toasts and
\* clears submitting; else the row exists, stamped by the clock of the store, which
\* has moved on since the last row, and the insert of the order items leaves
insertOrder(fault) ==
    /\ pc = "awaitOrder"
    /\ IF fault
         THEN /\ toasts' = Append(toasts, ErrorToast(Failed))
              /\ submitting' = FALSE
              /\ pc' = "idle"
              /\ closure' = NoClosure
              /\ UNCHANGED <<dbOrders, createdFrom, now>>
         ELSE /\ now' = now + 1
              /\ dbOrders' = Append(dbOrders, StoredOrder(closure.orderData, now'))
              /\ createdFrom' = Append(createdFrom, closure.orderItems)
              /\ closure' = [closure EXCEPT !.id = Len(dbOrders) + 1]
              /\ pc' = "awaitItems"
              /\ UNCHANGED <<toasts, submitting>>
    /\ UNCHANGED <<viewVars, listingVars, catalogVars, dbSalesReports, salesFiles,
                   stats, dbOrderItems, statusVars, orderItems, formVars,
                   selectedProduct, route, calls>>

\* a variant of the second answer that navigates to the order summary on an error too
insertOrderItemsNavigatesAnyway(fault) ==
    /\ pc = "awaitItems"
    /\ IF fault
         THEN /\ toasts' = Append(toasts, ErrorToast(Failed))
              /\ UNCHANGED dbOrderItems
         ELSE /\ dbOrderItems' =
                    dbOrderItems \o OrderItemsData(closure.orderItems, closure.id)
              /\ toasts' = Append(toasts, SuccessToast(Created))
    /\ route' = [page |-> "order-summary", id |-> closure.id]
    /\ submitting' = FALSE
    /\ pc' = "idle"
    /\ closure' = NoClosure
    /\ UNCHANGED <<viewVars, listingVars, backOfficeVars, dbOrders, statusVars, orderItems, formVars, selectedProduct, calls,
                   createdFrom>>

\* the store answers the insert of the order items, all rows or none: on an error the
\* handler toasts; else it toasts the success and navigates to the order summary;
\* submitting is cleared either way
insertOrderItems(fault) ==
    /\ pc = "awaitItems"
    /\ IF fault
         THEN /\ toasts' = Append(toasts, ErrorToast(Failed))
              /\ UNCHANGED <<dbOrderItems, route>>
         ELSE /\ dbOrderItems' =
                    dbOrderItems \o OrderItemsData(closure.orderItems, closure.id)
              /\ toasts' = Append(toasts, SuccessToast(Created))
              /\ route' = [page |-> "order-summary", id |-> closure.id]
    /\ submitting' = FALSE
    /\ pc' = "idle"
    /\ closure' = NoClosure
    /\ UNCHANGED <<viewVars, listingVars, backOfficeVars, dbOrders, statusVars, orderItems, formVars, selectedProduct, calls,
                   createdFrom>>

----------------------------------------------------------------------------
DraftInit ==
    /\ orderItems = <<>>
    /\ orderType = "dine_in"
    /\ tableNumber = ""
    /\ customerName = ""
    /\ customerAddress = ""
    /\ customerLocation = ""
    /\ submitting = FALSE
    /\ selectedProduct = Null
    /\ pc = "idle"
    /\ closure = NoClosure
    /\ toasts = <<>>
    /\ route = CreateRoute
    /\ calls = <<>>
    /\ createdFrom = <<>>

\* the catalog as seeded and fetched by the CreateOrder page, the clock at opening
\* time, no report generated, the Dashboard not yet loaded
BackOfficeInit ==
    /\ dbProducts = SeedProducts
    /\ products = ActiveProducts(SeedProducts)
    /\ now = OpeningTime
    /\ dbSalesReports = <<>>
    /\ salesFiles = {}
    /\ stats = NoStats
    /\ dbProductListings = {}
    /\ listingFiles = {}
    /\ listingOps = EmptyBag
    /\ productListings = [c \in Clients |-> {}]
    /\ listingIds = 0

PagesInit ==
    /\ orders = [c \in Clients |-> <<>>]
    /\ fetched = [c \in Clients |-> FALSE]
    /\ order = [c \in Clients |-> NoOrder]
    /\ completing = [c \in Clients |-> FALSE]
    /\ statusToast = NoToast
    /\ requests = EmptyBag
    /\ listed = [c \in Clients |-> <<>>]
    /\ statusFilter = [c \in Clients |-> "all"]
    /\ typeFilter = [c \in Clients |-> "all"]
    /\ searchQuery = [c \in Clients |-> <<>>]

\* The status specification: the store holds submitted orders, clients open the
\* Orders page and the OrderSummary page and press the status buttons
StatusInit ==
    /\ dbOrders = SampleOrders
    /\ dbOrderItems = SampleOrderItems
    /\ PagesInit
    /\ BackOfficeInit
    /\ DraftInit

StatusNext ==
    \/ \E c \in Clients : fetchOrders(c)
    \/ \E c \in Clients, o \in OrderIds : updateOrderStatus(c, o)
    \/ \E c \in Clients, o \in OrderIds : fetchOrder(c, o)
    \/ \E c \in Clients : handleCompleteOrder(c)
    \/ \E r \in InFlight, fault \in BOOLEAN : storeUpdate(r, fault)
    \/ \E r \in InFlight : response(r)

SpecStatus == StatusInit /\ [][StatusNext]_vars

----------------------------------------------------------------------------
\* The cart specification: addToOrder and updateQuantity called on a fresh draft with
\* any product and any integer quantity in -1..MaxQuantity

QuantityInputs == -1..MaxQuantity

CartInit ==
    /\ dbOrders = <<>>
    /\ dbOrderItems = <<>>
    /\ PagesInit
    /\ BackOfficeInit
    /\ DraftInit

CallAddToOrder(product) ==
    /\ Len(calls) < MaxCalls
    /\ addToOrder(product)
    /\ calls' = Append(calls, [op |-> "add", id |-> product.id, n |-> 1])
    /\ UNCHANGED <<viewVars, listingVars, backOfficeVars, storeVars, statusVars, formVars, submitting, pc, closure, toasts,
                   route, createdFrom>>

CallUpdateQuantity(productId, newQuantity) ==
    /\ Len(calls) < MaxCalls
    /\ updateQuantity(productId, newQuantity)
    /\ calls' = Append(calls, [op |-> "set", id |-> productId, n |-> newQuantity])
    /\ UNCHANGED <<viewVars, listingVars, backOfficeVars, storeVars, statusVars, formVars, submitting, selectedProduct, pc,
                   closure, toasts, route, createdFrom>>

CartNext ==
    \/ \E i \in 1..Len(Products) : CallAddToOrder(Products[i])
    \/ \E productId \in ProductIds, n \in QuantityInputs :
          CallUpdateQuantity(productId, n)

SpecCart == CartInit /\ [][CartNext]_vars

----------------------------------------------------------------------------
\* The page specification: one employee works the CreateOrder page through its
\* controls, the store answers the two inserts of a submission

QuantityOf(productId) ==
    IF HasItem(orderItems, productId)
      THEN orderItems[CHOOSE i \in 1..Len(orderItems) :
                         orderItems[i].product.id = productId].quantity
      ELSE 0

CreateInit ==
    /\ dbOrders = <<>>
    /\ dbOrderItems = <<>>
    /\ PagesInit
    /\ BackOfficeInit
    /\ DraftInit

\* the controls are worked between submissions, until the store holds MaxOrders rows
Working == route.page = "create" /\ pc = "idle" /\ Len(dbOrders) < MaxOrders

pageRest == <<storeVars, statusVars, submitting, pc, closure, toasts, route, calls,
              createdFrom>>

\* a product card is clicked
ClickProduct(product) ==
    /\ Working
    /\ QuantityOf(product.id) < MaxQuantity
    /\ addToOrder(product)
    /\ UNCHANGED <<viewVars, listingVars, backOfficeVars, pageRest, formVars>>

\* the Minus button of a cart line
ClickMinus(i) ==
    /\ Working
    /\ i \in 1..Len(orderItems)
    /\ updateQuantity(orderItems[i].product.id, orderItems[i].quantity - 1)
    /\ UNCHANGED <<viewVars, listingVars, backOfficeVars, pageRest, formVars, selectedProduct>>

\* the Plus button of a cart line
ClickPlus(i) ==
    /\ Working
    /\ i \in 1..Len(orderItems)
    /\ orderItems[i].quantity < MaxQuantity
    /\ updateQuantity(orderItems[i].product.id, orderItems[i].quantity + 1)
    /\ UNCHANGED <<viewVars, listingVars, backOfficeVars, pageRest, formVars, selectedProduct>>

setOrderType(value) ==
    /\ Working
    /\ orderType' = value
    /\ UNCHANGED <<viewVars, listingVars, backOfficeVars, pageRest, orderItems, selectedProduct, tableNumber, customerName,
                   customerAddress, customerLocation>>

\* the table number input is shown for dine_in only
setTableNumber(value) ==
    /\ Working
    /\ orderType = "dine_in"
    /\ tableNumber' = value
    /\ UNCHANGED <<viewVars, listingVars, backOfficeVars, pageRest, orderItems, selectedProduct, orderType, customerName,
                   customerAddress, customerLocation>>

\* the three customer inputs are shown for delivery only
setCustomerName(value) ==
    /\ Working
    /\ orderType = "delivery"
    /\ customerName' = value
    /\ UNCHANGED <<viewVars, listingVars, backOfficeVars, pageRest, orderItems, selectedProduct, orderType, tableNumber,
                   customerAddress, customerLocation>>

setCustomerAddress(value) ==
    /\ Working
    /\ orderType = "delivery"
    /\ customerAddress' = value
    /\ UNCHANGED <<viewVars, listingVars, backOfficeVars, pageRest, orderItems, selectedProduct, orderType, tableNumber,
                   customerName, customerLocation>>

setCustomerLocation(value) ==
    /\ Working
    /\ orderType = "delivery"
    /\ customerLocation' = value
    /\ UNCHANGED <<viewVars, listingVars, backOfficeVars, pageRest, orderItems, selectedProduct, orderType, tableNumber,
                   customerName, customerAddress>>

\* the Create Order button: disabled={submitting || orderItems.length === 0}
ClickCreateOrder ==
    /\ Len(dbOrders) < MaxOrders
    /\ ~(submitting \/ Len(orderItems) = 0)
    /\ handleSubmitOrder

\* the employee comes back from the order summary and the page mounts afresh; its
\* mount effect runs fetchProducts
openCreateOrder ==
    /\ route.page = "order-summary"
    /\ orderItems' = <<>>
    /\ orderType' = "dine_in"
    /\ tableNumber' = ""
    /\ customerName' = ""
    /\ customerAddress' = ""
    /\ customerLocation' = ""
    /\ submitting' = FALSE
    /\ selectedProduct' = Null
    /\ toasts' = <<>>
    /\ route' = CreateRoute
    /\ products' = ActiveProducts(dbProducts)
    /\ UNCHANGED <<viewVars, listingVars, dbProducts, reportVars, storeVars, statusVars, pc, closure, calls,
                   createdFrom>>

CreateNext ==
    \/ \E i \in 1..Len(Products) : ClickProduct(Products[i])
    \/ \E i \in 1..Len(Products) : ClickMinus(i)
    \/ \E i \in 1..Len(Products) : ClickPlus(i)
    \/ \E value \in OrderTypes : setOrderType(value)
    \/ \E value \in TableInputs : setTableNumber(value)
    \/ \E value \in TextInputs : setCustomerName(value)
    \/ \E value \in TextInputs : setCustomerAddress(value)
    \/ \E value \in TextInputs : setCustomerLocation(value)
    \/ ClickCreateOrder
    \/ \E fault \in BOOLEAN : insertOrder(fault)
    \/ \E fault \in BOOLEAN : insertOrderItems(fault)
    \/ openCreateOrder

SpecCreate == CreateInit /\ [][CreateNext]_vars

----------------------------------------------------------------------------
\* The handler specification: handleSubmitOrder called on any cart and any form

Entries == {[product |-> Products[i], quantity |-> q] :
                i \in 1..Len(Products), q \in 1..MaxQuantity}
Carts == {cart \in UNION {[1..n -> Entries] : n \in 0..Len(Products)} :
             \A i, j \in DOMAIN cart : i # j => cart[i].product.id # cart[j].product.id}

HandlerInit ==
    /\ dbOrders = <<>>
    /\ dbOrderItems = <<>>
    /\ PagesInit
    /\ BackOfficeInit
    /\ orderItems \in Carts
    /\ orderType \in OrderTypes
    /\ tableNumber \in TableInputs
    /\ customerName \in TextInputs
    /\ customerAddress \in TextInputs
    /\ customerLocation \in TextInputs
    /\ submitting = FALSE
    /\ selectedProduct \in {Null} \cup ProductIds
    /\ Len(orderItems) > 0 => selectedProduct # Null
    /\ pc = "idle"
    /\ closure = NoClosure
    /\ toasts = <<>>
    /\ route = CreateRoute
    /\ calls = <<>>
    /\ createdFrom = <<>>

CallHandleSubmitOrder ==
    /\ pc = "idle"
    /\ Len(dbOrders) < MaxOrders
    /\ handleSubmitOrder

HandlerNext ==
    \/ CallHandleSubmitOrder
    \/ \E fault \in BOOLEAN : insertOrder(fault)
    \/ \E fault \in BOOLEAN : insertOrderItems(fault)

SpecHandler == HandlerInit /\ [][HandlerNext]_vars

----------------------------------------------------------------------------
\* Admin page: the product handlers

\* what the edit dialog can hold when Save is pressed: the copy of a product row with
\* the price the admin typed
PriceInputs == {MargheritaPrice, PepperoniPrice}
EditingProducts == [id : ProductIds, price : PriceInputs, is_active : BOOLEAN]

\* a product update that also rewrites the unit price of the product's order items
handleUpdateProductRepricesItems(editingProduct, fault) ==
    /\ dbProducts' = IF fault THEN dbProducts
                     ELSE [dbProducts EXCEPT ![editingProduct.id] =
                             [price |-> editingProduct.price,
                              is_active |-> editingProduct.is_active]]
    /\ dbOrderItems' = IF fault THEN dbOrderItems
                       ELSE [i \in DOMAIN dbOrderItems |->
                               IF dbOrderItems[i].product_id = editingProduct.id
                                 THEN [dbOrderItems[i] EXCEPT
                                         !.unit_price = editingProduct.price]
                                 ELSE dbOrderItems[i]]
    /\ UNCHANGED <<viewVars, listingVars, products, reportVars, dbOrders, statusVars, draftVars>>

\* handleUpdateProduct: UPDATE products SET price, is_active, ... WHERE id = the
\* edited product (the name, image and description of a product are not modelled);
\* the request may fail
handleUpdateProduct(editingProduct, fault) ==
    /\ dbProducts' = IF fault THEN dbProducts
                     ELSE [dbProducts EXCEPT ![editingProduct.id] =
                             [price |-> editingProduct.price,
                              is_active |-> editingProduct.is_active]]
    /\ UNCHANGED <<viewVars, listingVars, products, reportVars, storeVars, statusVars, draftVars>>

\* handleDeleteProduct: UPDATE products SET is_active = false WHERE id = productId
handleDeleteProduct(productId, fault) ==
    /\ dbProducts' = IF fault THEN dbProducts
                     ELSE [dbProducts EXCEPT ![productId].is_active = FALSE]
    /\ UNCHANGED <<viewVars, listingVars, products, reportVars, storeVars, statusVars, draftVars>>

----------------------------------------------------------------------------
\* The catalog specification: an employee takes dine-in orders for table 5 from the
\* products the page fetched while an admin edits and deactivates products

CatalogInit ==
    /\ dbOrders = <<>>
    /\ dbOrderItems = <<>>
    /\ PagesInit
    /\ BackOfficeInit
    /\ orderItems = <<>>
    /\ orderType = "dine_in"
    /\ tableNumber = "5"
    /\ customerName = ""
    /\ customerAddress = ""
    /\ customerLocation = ""
    /\ submitting = FALSE
    /\ selectedProduct = Null
    /\ pc = "idle"
    /\ closure = NoClosure
    /\ toasts = <<>>
    /\ route = CreateRoute
    /\ calls = <<>>
    /\ createdFrom = <<>>

CatalogNext ==
    \/ \E i \in 1..Len(products) : ClickProduct(products[i])
    \/ ClickCreateOrder
    \/ \E fault \in BOOLEAN : insertOrder(fault)
    \/ \E fault \in BOOLEAN : insertOrderItems(fault)
    \/ openCreateOrder
    \/ \E editingProduct \in EditingProducts, fault \in BOOLEAN :
          handleUpdateProduct(editingProduct, fault)
    \/ \E productId \in ProductIds, fault \in BOOLEAN :
          handleDeleteProduct(productId, fault)

SpecCatalog == CatalogInit /\ [][CatalogNext]_vars

----------------------------------------------------------------------------
\* Dashboard page and the sales report of the file manager

MaxReports == 2        \* sales report generations
StoredOrders == 2      \* order rows the store holds when the back office looks at it

\* .gte('created_at', `${d}T00:00:00`).lt('created_at', `${d}T23:59:59`)
InWindow(rows, d) ==
    SelectSeq(rows, LAMBDA row : DayStart(d) <= row.created_at
                                   /\ row.created_at < DayEnd(d))

\* rows.reduce((sum, order) => sum + Number(order.total_amount), 0)
RECURSIVE reduceTotalAmount(_, _)
reduceTotalAmount(rows, sum) ==
    IF rows = <<>> THEN sum
    ELSE reduceTotalAmount(Tail(rows), sum + Head(rows).total_amount)

\* the four counters fetchStats computes for the date of today
Stats(orderRows, productTable, today) ==
    [totalOrders |-> Len(orderRows),
     pendingOrders |-> Len(SelectSeq(orderRows, LAMBDA row : row.status = "pending")),
     todayRevenue |-> reduceTotalAmount(InWindow(orderRows, today), 0),
     activeProducts |-> Cardinality({id \in DOMAIN productTable :
                                        productTable[id].is_active})]

\* fetchStats of the Dashboard page; every query is taken to be answered
fetchStats ==
    /\ stats' = Stats(dbOrders, dbProducts, dateStr(now))
    /\ UNCHANGED <<viewVars, listingVars, catalogVars, now, dbSalesReports, salesFiles, storeVars, statusVars,
                   draftVars>>

\* the row generateSalesReport saves for a date (report_data, which repeats the
\* totals and lists the orders, is left out); the payload names no file_path, and the
\* column takes its default, NULL
ReportRow(orderRows, d) ==
    [report_date |-> d,
     total_orders |-> Len(InWindow(orderRows, d)),
     total_revenue |-> reduceTotalAmount(InWindow(orderRows, d), 0),
     file_path |-> Null]

\* upsert of a row that carries no id: the conflict target is the primary key id,
\* the row takes a fresh id, so nothing conflicts and the row is inserted
upsert(table, row) == Append(table, row)

\* `${year}/${month}/sales-${dateStr}.json` in the bucket 'sales'
SalesPath(d) == <<"sales", d>>

\* the file generateSalesReport uploads: the report data, of which the totals are kept
ReportFile(orderRows, d) ==
    [path |-> SalesPath(d),
     totalOrders |-> Len(InWindow(orderRows, d)),
     totalRevenue |-> reduceTotalAmount(InWindow(orderRows, d), 0)]

\* storage upload with upsert: false: a path that holds a file refuses the upload
uploadFile(files, file) ==
    IF \E f \in files : f.path = file.path THEN files ELSE files \cup {file}

\* where a request of generateSalesReport may fail
ReportFaults == {"none", "query", "save", "upload"}

\* generateSalesReport(new Date()): query the orders of the date, save the row, upload
\* the file sales-<date>.json with upsert: false (an existing file fails the upload);
\* every error ends the run with a toast
generateSalesReport(fault) ==
    /\ Len(dbSalesReports) < MaxReports
    /\ LET d == dateStr(now)
       IN /\ dbSalesReports' = IF fault \in {"query", "save"} THEN dbSalesReports
                                ELSE upsert(dbSalesReports, ReportRow(dbOrders, d))
          /\ salesFiles' = IF fault = "none"
                            THEN uploadFile(salesFiles, ReportFile(dbOrders, d))
                            ELSE salesFiles
    /\ UNCHANGED <<viewVars, listingVars, catalogVars, now, stats, storeVars, statusVars, draftVars>>

\* midnight passes
tick ==
    /\ now = LastSecond
    /\ now' = now + 1
    /\ UNCHANGED <<viewVars, listingVars, catalogVars, dbSalesReports, salesFiles, stats, storeVars,
                   statusVars, draftVars>>

\* the instants at which the stored orders were created: 00:00:00, 09:00:00, 23:59:30
\* and 23:59:59 of the first day
CreatedAtInputs == {0, OpeningTime, LastSecond - 29, LastSecond}

\* the order items of the order with id o: those of the sample order it repeats
ItemsOfSample(o) ==
    LET k == IF o % 2 = 1 THEN 1 ELSE 2
        rows == SelectSeq(SampleOrderItems, LAMBDA row : row.order_id = k)
    IN [i \in 1..Len(rows) |-> [rows[i] EXCEPT !.order_id = o]]

\* the rows the order with id o may be: the sample order it repeats, pending or
\* completed, created at one of the instants
StoredRows(o) ==
    {[SampleOrders[IF o % 2 = 1 THEN 1 ELSE 2] EXCEPT
         !.status = status, !.created_at = t] :
        status \in {"pending", "completed"}, t \in CreatedAtInputs}

RECURSIVE ItemsOfSamples(_)
ItemsOfSamples(n) == IF n = 0 THEN <<>> ELSE ItemsOfSamples(n - 1) \o ItemsOfSample(n)

\* The report specification: the store holds the orders of the first day, taken just
\* before midnight; the Dashboard is loaded and sales reports are generated before
\* and after midnight
ReportsInit ==
    /\ dbOrders \in {rows \in [1..StoredOrders ->
                                   UNION {StoredRows(o) : o \in 1..StoredOrders}] :
                         \A o \in 1..StoredOrders : rows[o] \in StoredRows(o)}
    /\ dbOrderItems = ItemsOfSamples(StoredOrders)
    /\ PagesInit
    /\ dbProducts = SeedProducts
    /\ products = ActiveProducts(SeedProducts)
    /\ now = LastSecond
    /\ dbSalesReports = <<>>
    /\ salesFiles = {}
    /\ stats = NoStats
    /\ dbProductListings = {}
    /\ listingFiles = {}
    /\ listingOps = EmptyBag
    /\ productListings = [c \in Clients |-> {}]
    /\ listingIds = 0
    /\ DraftInit

ReportsNext ==
    \/ fetchStats
    \/ \E fault \in ReportFaults : generateSalesReport(fault)
    \/ tick

SpecReports == ReportsInit /\ [][ReportsNext]_vars

----------------------------------------------------------------------------
\* The lifecycle specification: an employee submits a dine-in draft of one Margherita
\* for table 5 on the CreateOrder page while the clients work the Orders page and the
\* OrderSummary page

LifecycleInit ==
    /\ dbOrders = <<>>
    /\ dbOrderItems = <<>>
    /\ PagesInit
    /\ BackOfficeInit
    /\ orderItems = <<[product |-> Margherita, quantity |-> 1]>>
    /\ orderType = "dine_in"
    /\ tableNumber = "5"
    /\ customerName = ""
    /\ customerAddress = ""
    /\ customerLocation = ""
    /\ submitting = FALSE
    /\ selectedProduct = Margherita.id
    /\ pc = "idle"
    /\ closure = NoClosure
    /\ toasts = <<>>
    /\ route = CreateRoute
    /\ calls = <<>>
    /\ createdFrom = <<>>

LifecycleNext ==
    \/ ClickCreateOrder
    \/ \E fault \in BOOLEAN : insertOrder(fault)
    \/ \E fault \in BOOLEAN : insertOrderItems(fault)
    \/ openCreateOrder
    \/ \E c \in Clients : fetchOrders(c)
    \/ \E c \in Clients, o \in OrderIds : updateOrderStatus(c, o)
    \/ \E c \in Clients, o \in OrderIds : fetchOrder(c, o)
    \/ \E c \in Clients : handleCompleteOrder(c)
    \/ \E r \in InFlight, fault \in BOOLEAN : storeUpdate(r, fault)
    \/ \E r \in InFlight : response(r)

SpecLifecycle == LifecycleInit /\ [][LifecycleNext]_vars

----------------------------------------------------------------------------
\* Claims about the status transitions (SpecStatus)

\* C1: whatever the interleaving of the status updates of the clients, each acting on
\* its own copy, the persisted status of an order never moves backward in
\* pending < in_progress < completed, and a completed order keeps its status.
StatusNeverRegresses ==
    [][\A o \in DOMAIN dbOrders :
          /\ Rank(dbOrders'[o].status) >= Rank(dbOrders[o].status)
          /\ dbOrders[o].status = "completed" => dbOrders'[o].status = "completed"]_vars

\* C1 witness: the store has processed a Start Preparation request that a page issued
\* from a copy still showing pending, for an order that is persisted as completed.
StaleStartOnCompleted ==
    \E r \in InFlight :
        /\ r.page = "list"
        /\ r.newStatus = "in_progress"
        /\ r.captured[r.id] = "pending"
        /\ r.phase \in {"ok", "rejected"}
        /\ dbOrders[r.id].status = "completed"

\* C2: no operation of any view moves a pending order directly to completed: the only
\* status written over pending is in_progress, the only one over in_progress is
\* completed.
NoJumpToCompleted ==
    [][\A o \in DOMAIN dbOrders :
          /\ (dbOrders[o].status = "pending" /\ dbOrders'[o].status # "pending")
                => dbOrders'[o].status = "in_progress"
          /\ (dbOrders[o].status = "in_progress" /\ dbOrders'[o].status # "in_progress")
                => dbOrders'[o].status = "completed"]_vars

\* C3: when the store, applying the status constraint of the orders table, processes a
\* transition the Orders page triggered on an order persisted as pending, the order is
\* persisted as in_progress afterwards; on one persisted as in_progress, as completed.
TransitionYieldsNextStatus ==
    [][\A r \in InFlight :
          (/\ r.page = "list"
           /\ r.phase = "sent"
           /\ \E outcome \in {"ok", "rejected"} :
                 requests' = Drop(r) (+) SetToBag({[r EXCEPT !.phase = outcome]}))
          => /\ dbOrders[r.id].status = "pending"
                  => dbOrders'[r.id].status = "in_progress"
             /\ dbOrders[r.id].status = "in_progress"
                  => dbOrders'[r.id].status = "completed"]_vars

----------------------------------------------------------------------------
\* Claims about the cart (SpecCart)

OnlyAdds == \A i \in 1..Len(calls) : calls[i].op = "add"
TimesAdded(productId) == Cardinality({i \in 1..Len(calls) : calls[i].id = productId})
FirstAdded(productId) == CHOOSE i \in 1..Len(calls) :
                            /\ calls[i].id = productId
                            /\ \A j \in 1..(i - 1) : calls[j].id # productId
AddedIds == {calls[i].id : i \in 1..Len(calls)}

\* C6: after any sequence of addToOrder calls on an empty cart, the cart holds exactly
\* one entry per distinct product added, its quantity is the number of times the
\* product was added, and the entries stand in the order of first addition.
CartCountsAdditions ==
    OnlyAdds =>
        /\ {orderItems[i].product.id : i \in 1..Len(orderItems)} = AddedIds
        /\ Len(orderItems) = Cardinality(AddedIds)
        /\ \A i \in 1..Len(orderItems) :
              orderItems[i].quantity = TimesAdded(orderItems[i].product.id)
        /\ \A i, j \in 1..Len(orderItems) :
              i < j => FirstAdded(orderItems[i].product.id)
                         < FirstAdded(orderItems[j].product.id)

\* C6 witness: Soda, Margherita, Soda were added: two entries, Soda first with 2.
AddedSodaTwiceAroundMargherita ==
    /\ OnlyAdds
    /\ Len(calls) = 3
    /\ calls[1].id = "soda" /\ calls[2].id = "margherita" /\ calls[3].id = "soda"
    /\ Len(orderItems) = 2

\* C7: after any sequence of addToOrder and updateQuantity calls with any integer n,
\* every cart entry has a quantity of at least 1 (a negative n is rejected and leaves
\* the cart as it was).
QuantitiesAtLeastOne ==
    \A i \in 1..Len(orderItems) : orderItems[i].quantity >= 1

RECURSIVE SumOfSubtotals(_)
SumOfSubtotals(entries) ==
    IF entries = {} THEN 0
    ELSE LET e == CHOOSE x \in entries : TRUE
         IN e.product.price * e.quantity + SumOfSubtotals(entries \ {e})

Reordered(items) ==
    {[i \in 1..Len(items) |-> items[f[i]]] : f \in Permutations(1..Len(items))}

\* C8: the total is the sum of quantity times unit price over the entries of the cart
\* and is the same for every order the entries may stand in.
TotalIgnoresOrder ==
    /\ getTotalAmount(orderItems)
          = SumOfSubtotals({orderItems[i] : i \in 1..Len(orderItems)})
    /\ \A other \in Reordered(orderItems) :
          getTotalAmount(other) = getTotalAmount(orderItems)

\* C8 witness: a cart of two entries with different subtotals, one of them set by
\* updateQuantity.
TwoEntriesAfterSet ==
    /\ Len(orderItems) = 2
    /\ orderItems[1].quantity = 2
    /\ orderItems[2].quantity = 1
    /\ \E i \in 1..Len(calls) : calls[i].op = "set" /\ calls[i].n = 2

----------------------------------------------------------------------------
\* Claims about the submission (SpecCreate, SpecHandler)

\* the order_items rows of an order, in insertion order
ItemsOf(o) == SelectSeq(dbOrderItems, LAMBDA row : row.order_id = o)

RECURSIVE SumSubtotalRows(_)
SumSubtotalRows(rows) ==
    IF rows = <<>> THEN 0 ELSE Head(rows).subtotal + SumSubtotalRows(Tail(rows))

\* C4: no persisted order exists without its line items: each persisted order has
\* exactly one persisted line item per cart entry of the submission that created it,
\* also after a persistence write of a submission failed. Stated for the states in
\* which no submission is in flight.
EveryOrderHasItsItems ==
    pc = "idle" =>
        \A o \in 1..Len(dbOrders) :
            /\ Len(ItemsOf(o)) = Len(createdFrom[o])
            /\ \A i \in 1..Len(createdFrom[o]) :
                  \E j \in 1..Len(ItemsOf(o)) :
                      /\ ItemsOf(o)[j].product_id = createdFrom[o][i].product.id
                      /\ ItemsOf(o)[j].quantity = createdFrom[o][i].quantity

\* C5: for every successfully submitted order the persisted total_amount is the sum
\* of the subtotals of its persisted line items, each subtotal is quantity times
\* unit_price, and unit_price is the price the cart entry captured.
TotalEqualsSumOfSubtotals ==
    \A o \in 1..Len(dbOrders) :
        ItemsOf(o) # <<>> =>
            /\ dbOrders[o].total_amount = SumSubtotalRows(ItemsOf(o))
            /\ Len(ItemsOf(o)) = Len(createdFrom[o])
            /\ \A i \in 1..Len(ItemsOf(o)) :
                  /\ ItemsOf(o)[i].subtotal
                        = ItemsOf(o)[i].quantity * ItemsOf(o)[i].unit_price
                  /\ ItemsOf(o)[i].product_id = createdFrom[o][i].product.id
                  /\ ItemsOf(o)[i].unit_price = createdFrom[o][i].product.price

\* C5 witness: the dine-in order of two Margherita and one Soda for table 5 was
\* submitted and both inserts succeeded.
SubmittedTwoMargheritaOneSoda ==
    /\ route.page = "order-summary"
    /\ Len(dbOrders) = 1
    /\ dbOrders[1].order_type = "dine_in"
    /\ dbOrders[1].table_number = "5"
    /\ Len(ItemsOf(1)) = 2
    /\ ItemsOf(1)[1].product_id = "margherita" /\ ItemsOf(1)[1].quantity = 2
    /\ ItemsOf(1)[2].product_id = "soda" /\ ItemsOf(1)[2].quantity = 1

HandlerRan == toasts # <<>> \/ pc # "idle"
ValidationToasts == {ErrorToast(EmptyOrder), ErrorToast(MissingTableNumber),
                     ErrorToast(MissingDeliveryInfo)}
DeliveryInfoMissing == customerName = "" \/ customerAddress = "" \/ customerLocation = ""

\* C9: a submission reports exactly one validation error, the first violated rule in
\* the order EmptyOrder, MissingTableNumber (dine_in only), MissingDeliveryInfo
\* (delivery only): an empty cart gives EmptyOrder whatever the type and the fields
\* are, and the rule of the other order type is never applied.
ValidationReportsFirstViolation ==
    HandlerRan =>
        /\ Len(orderItems) = 0 => toasts = <<ErrorToast(EmptyOrder)>>
        /\ (Len(orderItems) > 0 /\ orderType = "dine_in" /\ tableNumber = "")
              => toasts = <<ErrorToast(MissingTableNumber)>>
        /\ (Len(orderItems) > 0 /\ orderType = "delivery" /\ DeliveryInfoMissing)
              => toasts = <<ErrorToast(MissingDeliveryInfo)>>
        /\ (Len(orderItems) > 0 /\ orderType = "dine_in" /\ tableNumber # "")
              => \A i \in 1..Len(toasts) : toasts[i] \notin ValidationToasts
        /\ (Len(orderItems) > 0 /\ orderType = "delivery" /\ ~DeliveryInfoMissing)
              => \A i \in 1..Len(toasts) : toasts[i] \notin ValidationToasts

\* C9 witness: the handler ran on an empty cart of a dine_in draft without a table
\* number and toasted the empty order alone.
EmptyCartBeatsMissingTable ==
    /\ Len(orderItems) = 0
    /\ orderType = "dine_in"
    /\ tableNumber = ""
    /\ toasts = <<ErrorToast(EmptyOrder)>>

InvalidDraft ==
    \/ Len(orderItems) = 0
    \/ orderType = "dine_in" /\ tableNumber = ""
    \/ orderType = "delivery" /\ DeliveryInfoMissing

\* C10: a submission that fails validation issues no persistence write: the persisted
\* orders and order items, the cart and the form fields are unchanged, and submitting
\* is not set.
FailedValidationWritesNothing ==
    [][InvalidDraft =>
          /\ UNCHANGED <<dbOrders, dbOrderItems, orderItems, orderType, tableNumber,
                         customerName, customerAddress, customerLocation>>
          /\ submitting' = FALSE
          /\ pc' = "idle"]_vars

\* C10 witness: the handler ran on a delivery draft with a filled cart and a missing
\* address: it toasted, nothing is persisted and submitting is not set.
DeliveryWithoutAddressRejected ==
    /\ Len(orderItems) > 0
    /\ orderType = "delivery"
    /\ customerName # "" /\ customerAddress = "" /\ customerLocation # ""
    /\ toasts = <<ErrorToast(MissingDeliveryInfo)>>
    /\ dbOrders = <<>> /\ dbOrderItems = <<>>
    /\ ~submitting

----------------------------------------------------------------------------
\* Claims about the type-specific fields of a submission (SpecCreate, SpecHandler)

\* C11: a dine_in submission with a filled cart whose table number input is absent or
\* does not parse as an integer does not proceed and persists nothing, and every
\* persisted dine_in order has an integer table_number.
TableNumberRequired ==
    /\ (Len(orderItems) > 0 /\ orderType = "dine_in" /\ parseInt(tableNumber) = Null)
          => (pc = "idle" /\ ~submitting)
    /\ \A o \in 1..Len(dbOrders) :
          dbOrders[o].order_type = "dine_in" => dbOrders[o].table_number # Null

\* C12: a delivery submission with a filled cart toasts MissingDeliveryInfo if and only
\* if one of customer name, address and location is empty, and every persisted
\* delivery order has the three of them filled.
DeliveryInfoRequired ==
    /\ (HandlerRan /\ Len(orderItems) > 0 /\ orderType = "delivery")
          => ((\E i \in 1..Len(toasts) : toasts[i] = ErrorToast(MissingDeliveryInfo))
                <=> DeliveryInfoMissing)
    /\ \A o \in 1..Len(dbOrders) :
          dbOrders[o].order_type = "delivery"
             => /\ dbOrders[o].customer_name \notin {"", Null}
                /\ dbOrders[o].customer_address \notin {"", Null}
                /\ dbOrders[o].customer_location \notin {"", Null}

\* C12 witness: a delivery draft with the three fields filled was submitted and its
\* order row is persisted with them.
DeliveryOrderPersisted ==
    /\ orderType = "delivery"
    /\ ~DeliveryInfoMissing
    /\ Len(dbOrders) = 1
    /\ dbOrders[1].order_type = "delivery"
    /\ dbOrders[1].customer_address = "x"

\* C13: every persisted order carries the fields of its own type only: a dine_in order
\* has table_number set and the three customer fields null, a delivery order has the
\* three customer fields set and table_number null, whatever the inputs of the other
\* type held when the order was submitted.
OrdersCarryOwnTypeFields ==
    \A o \in 1..Len(dbOrders) :
        /\ dbOrders[o].order_type = "dine_in"
              => /\ dbOrders[o].table_number # Null
                 /\ dbOrders[o].customer_name = Null
                 /\ dbOrders[o].customer_address = Null
                 /\ dbOrders[o].customer_location = Null
        /\ dbOrders[o].order_type = "delivery"
              => /\ dbOrders[o].table_number = Null
                 /\ dbOrders[o].customer_name # Null
                 /\ dbOrders[o].customer_address # Null
                 /\ dbOrders[o].customer_location # Null

\* C14: when the insert of the order row succeeded and the insert of the order items
\* fails, the submission ends in the failure outcome: the error toast is raised and no
\* success toast, the page stays on the order form, the cart is kept, and the handler
\* ends without another write.
ItemsFailureIsReported ==
    [][(pc = "awaitItems" /\ dbOrderItems' = dbOrderItems)
          => /\ toasts' = Append(toasts, ErrorToast(Failed))
             /\ \A i \in 1..Len(toasts') : toasts'[i].title # "Success"
             /\ route' = route
             /\ route'.page = "create"
             /\ orderItems' = orderItems
             /\ dbOrders' = dbOrders
             /\ pc' = "idle"
             /\ submitting' = FALSE]_vars

\* C14 witness: the order row of a submission is persisted, its order items are not,
\* the handler has ended with the error toast on the order form with the cart kept.
ItemsInsertFailed ==
    /\ pc = "idle"
    /\ Len(dbOrders) = 1
    /\ ItemsOf(1) = <<>>
    /\ toasts = <<ErrorToast(Failed)>>
    /\ route = CreateRoute
    /\ orderItems # <<>>

----------------------------------------------------------------------------
\* Claims about the frame of the status updates (SpecStatus, SpecLifecycle)

OnlyLifecycleStatuses ==
    /\ [](\A o \in DOMAIN dbOrders :
             dbOrders[o].status \in {"pending", "in_progress", "completed"})
    /\ [][\A o \in DOMAIN dbOrders' :
             /\ o \notin DOMAIN dbOrders => dbOrders'[o].status = "pending"
             /\ (o \in DOMAIN dbOrders /\ dbOrders'[o].status # dbOrders[o].status)
                   => dbOrders'[o].status \in {"in_progress", "completed"}]_vars

\* C16 witness: an order inserted by a submission has had a Start Preparation request
\* answered by the store and has then been completed.
SubmittedOrderCompleted ==
    /\ Len(dbOrders) = 1
    /\ Len(createdFrom) = 1
    /\ dbOrders[1].status = "completed"
    /\ \E r \in InFlight : r.page = "list" /\ r.id = 1 /\ r.phase # "sent"

----------------------------------------------------------------------------
\* Claims about the catalog (SpecCatalog)

\* C17: orders are price snapshots: a product edit or deactivation by an admin leaves
\* the total_amount of every existing order and the quantity, unit_price and subtotal
\* of every existing order item as they were, no step deletes an order or edits an
\* order item, and a submission never changes a product row.
OrdersArePriceSnapshots ==
    [][/\ Len(dbOrders') >= Len(dbOrders)
       /\ Len(dbOrderItems') >= Len(dbOrderItems)
       /\ \A o \in DOMAIN dbOrders :
             dbOrders'[o].total_amount = dbOrders[o].total_amount
       /\ \A i \in DOMAIN dbOrderItems : dbOrderItems'[i] = dbOrderItems[i]
       /\ dbProducts' # dbProducts => UNCHANGED <<dbOrders, dbOrderItems>>
       /\ (dbOrders' # dbOrders \/ dbOrderItems' # dbOrderItems)
             => dbProducts' = dbProducts]_vars

\* C17 witness: an order item was persisted at the seed price of a product that the
\* admin has since repriced and deactivated; the order still totals its items.
RepricedAfterOrder ==
    \E i \in DOMAIN dbOrderItems :
        LET row == dbOrderItems[i]
        IN /\ row.unit_price # dbProducts[row.product_id].price
           /\ ~dbProducts[row.product_id].is_active
           /\ row.subtotal = row.quantity * row.unit_price
           /\ dbOrders[row.order_id].total_amount = SumSubtotalRows(ItemsOf(row.order_id))

----------------------------------------------------------------------------
\* Claims about the sales report and the Dashboard (SpecReports)

\* C18: after any sequence of sales report generations the store holds at most one
\* sales report row per report date: a generation for a date that has a row
\* overwrites it.
OneReportPerDate ==
    \A i, j \in DOMAIN dbSalesReports :
        dbSalesReports[i].report_date = dbSalesReports[j].report_date => i = j

\* the orders created in d 00:00:00 <= created_at < d 23:59:59
Counted(d) ==
    {o \in DOMAIN dbOrders :
        /\ d * SecondsPerDay <= dbOrders[o].created_at
        /\ dbOrders[o].created_at < d * SecondsPerDay + LastSecond}

RECURSIVE SumOfTotals(_)
SumOfTotals(ids) ==
    IF ids = {} THEN 0
    ELSE LET o == CHOOSE x \in ids : TRUE
         IN dbOrders[o].total_amount + SumOfTotals(ids \ {o})

\* C19: for the date d of the run, the revenue the Dashboard shows and the sales
\* report saved both count an order exactly when d 00:00:00 <= created_at < d 23:59:59
\* (23:59:30 is in, 23:59:59 is out); the report's total_orders and total_revenue are
\* the count and the sum of total_amount of those orders, and the two computations
\* give the same revenue on the same store and date.
WindowIsTheDayLessItsLastSecond ==
    /\ [](\A d \in {dateStr(now), dateStr(now) + 1} :
             /\ Stats(dbOrders, dbProducts, d).todayRevenue = SumOfTotals(Counted(d))
             /\ ReportRow(dbOrders, d).total_orders = Cardinality(Counted(d))
             /\ ReportRow(dbOrders, d).total_revenue = SumOfTotals(Counted(d))
             /\ Stats(dbOrders, dbProducts, d).todayRevenue
                   = ReportRow(dbOrders, d).total_revenue)
    /\ [][/\ stats' # stats
               => stats'.todayRevenue = SumOfTotals(Counted(dateStr(now)))
          /\ Len(dbSalesReports') > Len(dbSalesReports)
               => LET row == dbSalesReports'[Len(dbSalesReports')]
                  IN /\ row.report_date = dateStr(now)
                     /\ row.total_orders = Cardinality(Counted(dateStr(now)))
                     /\ row.total_revenue = SumOfTotals(Counted(dateStr(now)))]_vars

\* C19 witness: the store holds an order created at 23:59:30 and one created at
\* 23:59:59; the Dashboard was loaded and the report generated on that day: both show
\* the revenue of the first order alone and the report counts one order.
LastHalfMinuteInLastSecondOut ==
    /\ dbOrders[1].created_at = LastSecond - 29
    /\ dbOrders[2].created_at = LastSecond
    /\ dateStr(now) = 0
    /\ stats.todayRevenue = dbOrders[1].total_amount
    /\ Len(dbSalesReports) = 1
    /\ dbSalesReports[1].total_orders = 1
    /\ dbSalesReports[1].total_revenue = dbOrders[1].total_amount

\* C20: the counters of the Dashboard are those of the orders created within the
\* window of the reference day: the total count, the count of the pending ones and the
\* revenue; all three are 0 when no order was created within it.
StatsAreThoseOfTheDay ==
    [][stats' # stats
          => LET today == Counted(dateStr(now))
             IN /\ stats'.totalOrders = Cardinality(today)
                /\ stats'.pendingOrders
                      = Cardinality({o \in today : dbOrders[o].status = "pending"})
                /\ stats'.todayRevenue = SumOfTotals(today)]_vars


-----------------------------------------------------------------------------
\* Orders page: filters, search and grouping by date

\* the leading characters of the uuid text of order o: eight hexadecimal digits, a
\* dash, and the first digit of the next group (gen_random_uuid() may draw any)
HexDigits == <<"a", "b", "c", "d", "e", "f">>
Uuid(o) ==
    [i \in 1..10 |-> IF i <= 8 THEN HexDigits[o]
                     ELSE IF i = 9 THEN "-" ELSE HexDigits[o + 1]]

\* String.prototype.toLowerCase over the characters the model types
toLowerCase(text) ==
    [i \in DOMAIN text |->
        CASE text[i] = "A" -> "a" [] text[i] = "B" -> "b" [] text[i] = "C" -> "c"
          [] text[i] = "D" -> "d" [] text[i] = "E" -> "e" [] text[i] = "F" -> "f"
          [] OTHER -> text[i]]

\* String.prototype.includes
includes(text, query) ==
    \E i \in 0..(Len(text) - Len(query)) : SubSeq(text, i + 1, i + Len(query)) = query

\* String.prototype.slice(from, to) for 0 <= from <= to
slice(text, from, to) ==
    SubSeq(text, from + 1, IF to < Len(text) THEN to ELSE Len(text))

\* the text after "Order #" on an order's card
DisplayedId(o) == slice(Uuid(o), 0, 8)

\* what the three controls can be set to
StatusFilterInputs == {"all", "pending", "in_progress", "completed"}
TypeFilterInputs == {"all", "dine_in", "delivery"}
SearchInputs == {<<>>, <<"b">>, <<"B">>}

setStatusFilter(c, value) ==
    /\ statusFilter[c] # value
    /\ statusFilter' = [statusFilter EXCEPT ![c] = value]
    /\ UNCHANGED <<listed, typeFilter, searchQuery, listingVars, backOfficeVars,
                   storeVars, statusVars, draftVars>>

setTypeFilter(c, value) ==
    /\ typeFilter[c] # value
    /\ typeFilter' = [typeFilter EXCEPT ![c] = value]
    /\ UNCHANGED <<listed, statusFilter, searchQuery, listingVars, backOfficeVars,
                   storeVars, statusVars, draftVars>>

setSearchQuery(c, value) ==
    /\ searchQuery[c] # value
    /\ searchQuery' = [searchQuery EXCEPT ![c] = value]
    /\ UNCHANGED <<listed, statusFilter, typeFilter, listingVars, backOfficeVars,
                   storeVars, statusVars, draftVars>>

\* the page's copy of order o as the filter sees it
Keeps(c, o) ==
    /\ statusFilter[c] = "all" \/ orders[c][o] = statusFilter[c]
    /\ typeFilter[c] = "all" \/ dbOrders[o].order_type = typeFilter[c]
    /\ searchQuery[c] = <<>>
         \/ includes(toLowerCase(Uuid(o)), toLowerCase(searchQuery[c]))

filteredOrdersEitherFilter(c) ==
    SelectSeq(listed[c], LAMBDA o :
        /\ \/ statusFilter[c] = "all" \/ orders[c][o] = statusFilter[c]
           \/ typeFilter[c] = "all" \/ dbOrders[o].order_type = typeFilter[c]
        /\ searchQuery[c] = <<>>
             \/ includes(toLowerCase(Uuid(o)), toLowerCase(searchQuery[c])))
filteredOrders(c) == SelectSeq(listed[c], LAMBDA o : Keeps(c, o))

\* new Date(order.created_at).toDateString(), compared as the sort compares it
DateKey(o) == dateStr(dbOrders[o].created_at)

\* groups[date].push(order), groups being an object whose keys keep insertion order
push(groups, o) ==
    IF \E i \in DOMAIN groups : groups[i].date = DateKey(o)
    THEN [i \in DOMAIN groups |->
            IF groups[i].date = DateKey(o)
            THEN [groups[i] EXCEPT !.orders = Append(@, o)]
            ELSE groups[i]]
    ELSE Append(groups, [date |-> DateKey(o), orders |-> <<o>>])

RECURSIVE forEachPush(_, _)
forEachPush(ids, groups) ==
    IF ids = <<>> THEN groups
    ELSE forEachPush(Tail(ids), push(groups, Head(ids)))

\* entries.sort(([a], [b]) => new Date(b).getTime() - new Date(a).getTime())
insertEntry(sorted, entry) ==
    LET before == SelectSeq(sorted, LAMBDA e : e.date >= entry.date)
        after == SelectSeq(sorted, LAMBDA e : e.date < entry.date)
    IN  before \o <<entry>> \o after

RECURSIVE sortEntries(_)
sortEntries(entries) ==
    IF entries = <<>> THEN <<>>
    ELSE insertEntry(sortEntries(SubSeq(entries, 1, Len(entries) - 1)),
                     entries[Len(entries)])

groupOrdersByDateUnsorted(ids) == forEachPush(ids, <<>>)
groupOrdersByDate(ids) == sortEntries(forEachPush(ids, <<>>))

\* the stores the view specification starts from: orders of two days, each pending
\* or completed
ViewTimes == {OpeningTime, SecondsPerDay, SecondsPerDay + OpeningTime}
ViewRows(o) ==
    {[SampleOrders[IF o % 2 = 1 THEN 1 ELSE 2] EXCEPT
         !.status = status, !.created_at = t] :
        status \in {"pending", "completed"}, t \in ViewTimes}

ViewInit ==
    /\ dbOrders \in {rows \in [1..StoredOrders -> UNION {ViewRows(o) : o \in 1..StoredOrders}] :
                       \A o \in 1..StoredOrders : rows[o] \in ViewRows(o)}
    /\ dbOrderItems = ItemsOfSamples(StoredOrders)
    /\ dbProducts = SeedProducts
    /\ products = ActiveProducts(SeedProducts)
    /\ now = SecondsPerDay + OpeningTime
    /\ dbSalesReports = <<>>
    /\ salesFiles = {}
    /\ stats = NoStats
    /\ dbProductListings = {}
    /\ listingFiles = {}
    /\ listingOps = EmptyBag
    /\ productListings = [c \in Clients |-> {}]
    /\ listingIds = 0
    /\ DraftInit
    /\ PagesInit

\* the session whose Orders page is looked at
Viewer == "c1"

ViewNext ==
    \/ fetchOrders(Viewer)
    \/ \E value \in StatusFilterInputs : setStatusFilter(Viewer, value)
    \/ \E value \in TypeFilterInputs : setTypeFilter(Viewer, value)
    \/ \E value \in SearchInputs : setSearchQuery(Viewer, value)

SpecView == ViewInit /\ [][ViewNext]_vars


\* every list of distinct stored orders, in any arrangement
OrderLists ==
    UNION {{ids \in [1..n -> OrderIds] :
               \A i, j \in 1..n : i # j => ids[i] # ids[j]} : n \in 0..Len(dbOrders)}

RECURSIVE Flatten(_)
Flatten(groups) ==
    IF groups = <<>> THEN <<>> ELSE Head(groups).orders \o Flatten(Tail(groups))

PositionIn(ids, o) == CHOOSE i \in DOMAIN ids : ids[i] = o

NewestFirstList(ids) ==
    \A i, j \in DOMAIN ids :
        i < j => dbOrders[ids[i]].created_at >= dbOrders[ids[j]].created_at

\* C21: groupOrdersByDate partitions its input: each input order is in exactly one
\* bucket, once, and that bucket is keyed by the date of its created_at; a bucket
\* holds input orders only, in their input order; the buckets come latest date
\* first; none is empty; and an input that is newest first comes back unchanged
\* when the buckets are flattened
GroupsPartitionByDate ==
    \A ids \in OrderLists :
        LET groups == groupOrdersByDate(ids)
        IN  /\ \A p \in DOMAIN ids :
                  /\ Cardinality({<<i, k>> \in (DOMAIN groups) \X (1..Len(ids)) :
                                     /\ k \in DOMAIN groups[i].orders
                                     /\ groups[i].orders[k] = ids[p]}) = 1
                  /\ \A i \in DOMAIN groups :
                        (\E k \in DOMAIN groups[i].orders : groups[i].orders[k] = ids[p])
                            => groups[i].date = DateKey(ids[p])
            /\ \A i \in DOMAIN groups :
                  /\ groups[i].orders # <<>>
                  /\ \A k \in DOMAIN groups[i].orders :
                        \E p \in DOMAIN ids : ids[p] = groups[i].orders[k]
                  /\ \A k, m \in DOMAIN groups[i].orders :
                        k < m => PositionIn(ids, groups[i].orders[k])
                                     < PositionIn(ids, groups[i].orders[m])
            /\ \A i, j \in DOMAIN groups : i < j => groups[i].date > groups[j].date
            /\ NewestFirstList(ids) => Flatten(groups) = ids

\* C21 witness: a client fetched orders of two dates and its page shows two buckets
TwoDatesListed ==
    \E c \in Clients :
        /\ fetched[c]
        /\ Len(groupOrdersByDate(filteredOrders(c))) = 2
        /\ Len(filteredOrders(c)) = Len(dbOrders)

\* C22: the listed orders are the fetched orders that pass the status filter and the
\* type filter together (and the search, when one is typed), in the fetched order;
\* with both filters at 'all' and no search every fetched order is listed; and a
\* change of a filter changes neither the fetched orders nor the store
FilterChanged ==
    \/ statusFilter' # statusFilter
    \/ typeFilter' # typeFilter
    \/ searchQuery' # searchQuery

FiltersAreConjunctive ==
    /\ [](\A c \in Clients :
            LET shown == filteredOrders(c)
                passes(o) ==
                    /\ statusFilter[c] \in {"all", orders[c][o]}
                    /\ typeFilter[c] \in {"all", dbOrders[o].order_type}
            IN  /\ \A k \in DOMAIN shown :
                      /\ \E p \in DOMAIN listed[c] : listed[c][p] = shown[k]
                      /\ passes(shown[k])
                /\ \A k, m \in DOMAIN shown :
                      k < m => PositionIn(listed[c], shown[k])
                                   < PositionIn(listed[c], shown[m])
                /\ searchQuery[c] = <<>> =>
                      \A p \in DOMAIN listed[c] :
                          passes(listed[c][p]) =>
                              \E k \in DOMAIN shown : shown[k] = listed[c][p]
                /\ (statusFilter[c] = "all" /\ typeFilter[c] = "all"
                       /\ searchQuery[c] = <<>>) => shown = listed[c])
    /\ [][FilterChanged => UNCHANGED <<listed, orders, fetched, storeVars,
                                        backOfficeVars, listingVars>>]_vars

\* C22 witness: both filters are set and the list is cut down to a part of the
\* fetched orders
BothFiltersCut ==
    \E c \in Clients :
        /\ statusFilter[c] # "all"
        /\ typeFilter[c] # "all"
        /\ filteredOrders(c) # <<>>
        /\ Len(filteredOrders(c)) < Len(listed[c])

\* C23: with a search typed, a listed order's displayed identifier (the first eight
\* characters of its id) contains the query, letter case aside
SearchMatchesDisplayedPrefix ==
    \A c \in Clients :
        searchQuery[c] # <<>> =>
            \A k \in DOMAIN filteredOrders(c) :
                includes(toLowerCase(DisplayedId(filteredOrders(c)[k])),
                         toLowerCase(searchQuery[c]))


\* the status updates a client's Orders view has issued and not yet finished
ListUpdatesInFlight(c) ==
    {r \in InFlight : r.client = c /\ r.page = "list"}

CopiesInFlight(c) ==
    LET RECURSIVE Sum(_)
        Sum(S) == IF S = {} THEN 0
                  ELSE LET r == CHOOSE x \in S : TRUE
                       IN  CopiesIn(r, requests) + Sum(S \ {r})
    IN  Sum(ListUpdatesInFlight(c))

\* C25: no Orders view has two of its status updates in flight together
OneListUpdateInFlight ==
    \A c \in Clients : CopiesInFlight(c) <= 1

\* C27: a refused status update changes nothing and is reported once: the store
\* keeps the row when it answers with an error; the handler that receives the error
\* leaves the list, the summary and the store as they are, raises the error toast and
\* sends nothing; and a displayed status changes only in the handler of an accepted
\* write, to the status that was written
Refused(r) == r \in InFlight /\ r.phase \in {"failed", "rejected"}

RefusedUpdateChangesNothing ==
    [][/\ \A r \in InFlight :
             \A outcome \in {"failed", "rejected"} :
                 (r.phase = "sent"
                     /\ requests' = Drop(r) (+) SetToBag({[r EXCEPT !.phase = outcome]}))
                   => dbOrders' = dbOrders
       /\ \A r \in InFlight :
             (Refused(r) /\ requests' = Drop(r))
               => /\ UNCHANGED <<storeVars, orders, order>>
                  /\ statusToast'.title = "Error"
                  /\ statusToast'.client = r.client
       /\ \A c \in Clients :
             /\ (fetched[c] /\ orders'[c] # orders[c])
                   => \E r \in InFlight :
                         /\ r.phase = "ok" /\ r.client = c /\ r.page = "list"
                         /\ requests' = Drop(r)
                         /\ dbOrders[r.id].status = r.newStatus
                         /\ orders'[c][r.id] = r.newStatus
             /\ (order[c] # NoOrder /\ order'[c] # order[c])
                   => \E r \in InFlight :
                         /\ r.phase = "ok" /\ r.client = c /\ r.page = "summary"
                         /\ requests' = Drop(r)
                         /\ order'[c].status = r.newStatus
      ]_vars

\* C27 witness: the store refused a list update and the page has reported it, the
\* order pending in the store and on the page, nothing left in flight
RefusedListUpdateReported ==
    \E c \in Clients :
        /\ statusToast = [client |-> c, page |-> "list", title |-> "Error"]
        /\ fetched[c]
        /\ requests = EmptyBag
        /\ \A o \in OrderIds : dbOrders[o].status = "pending" /\ orders[c][o] = "pending"


SpecHandlerFair ==
    /\ HandlerInit
    /\ [][HandlerNext]_vars
    /\ WF_vars(\E fault \in BOOLEAN : insertOrder(fault))
    /\ WF_vars(\E fault \in BOOLEAN : insertOrderItems(fault))

\* C28: a submission that passed validation ends, and then submitting is false; no
\* state holds an idle handler with submitting set; and the success toast is shown
\* only for an order whose row and whose item rows, one per cart entry, are stored
SubmissionEnds ==
    /\ (pc # "idle") ~> (pc = "idle" /\ ~submitting)
    /\ [](pc = "idle" => ~submitting)
    /\ [](\A i \in DOMAIN toasts :
            toasts[i] = SuccessToast(Created)
              => /\ route.page = "order-summary"
                 /\ route.id \in DOMAIN dbOrders
                 /\ Len(ItemsOf(route.id)) = Len(createdFrom[route.id])
                 /\ Len(ItemsOf(route.id)) > 0)

\* C28 witness: a submission ended on an error of the items insert, its order row
\* stored, and the button is enabled again
EndedOnItemsError ==
    /\ pc = "idle"
    /\ ~submitting
    /\ Len(dbOrders) = 1
    /\ ItemsOf(1) = <<>>
    /\ toasts = <<ErrorToast(Failed)>>


\* C29: where a date has a report record and a stored file, the record's file_path
\* names that file and the file holds the record's order count and revenue
ReportRecordNamesItsFile ==
    \A i \in DOMAIN dbSalesReports :
        \A f \in salesFiles :
            f.path = SalesPath(dbSalesReports[i].report_date)
              => /\ dbSalesReports[i].file_path # Null
                 /\ dbSalesReports[i].file_path = f.path
                 /\ f.totalOrders = dbSalesReports[i].total_orders
                 /\ f.totalRevenue = dbSalesReports[i].total_revenue


-----------------------------------------------------------------------------
\* Admin page: product listings

MaxListings == 2       \* listing rows product_listings has been given

\* `product-listing-${today}.json` in the bucket 'listings'
ListingPath(d) == <<"product-listing", d>>

\* the Export button: disabled={uploading}, set while handleExportProducts runs
Uploading(c) == \E op \in BagToSet(listingOps) : op.client = c /\ op.kind = "export"

\* fetchProductListings, run by the mount effect of the Admin page
fetchProductListings(c) ==
    /\ productListings[c] # dbProductListings
    /\ \A op \in BagToSet(listingOps) : op.client # c
    /\ productListings' = [productListings EXCEPT ![c] = dbProductListings]
    /\ UNCHANGED <<dbProductListings, listingFiles, listingOps, listingIds, viewVars,
                   backOfficeVars, storeVars, statusVars, draftVars>>

\* handleExportProducts up to the answer of the upload: exportProductListing uploads
\* the file of today's name with upsert: false; without a result the handler ends
handleExportProducts(c, fault) ==
    /\ ~Uploading(c)
    /\ listingIds < MaxListings
    /\ BagCardinality(listingOps) < MaxInflight
    /\ LET path == ListingPath(dateStr(now))
       IN IF fault \/ path \in listingFiles
            THEN UNCHANGED <<listingFiles, listingOps>>
            ELSE /\ listingFiles' = listingFiles \cup {path}
                 /\ listingOps' = listingOps (+) SetToBag({[client |-> c,
                                      kind |-> "export", phase |-> "insert",
                                      path |-> path, id |-> 0]})
    /\ UNCHANGED <<dbProductListings, productListings, listingIds, viewVars,
                   backOfficeVars, storeVars, statusVars, draftVars>>

\* the insert of the listing row after an upload that succeeded; its error is not read
insertListing(op, fault) ==
    /\ op \in BagToSet(listingOps)
    /\ op.kind = "export" /\ op.phase = "insert"
    /\ IF fault
         THEN UNCHANGED <<dbProductListings, listingIds>>
         ELSE /\ dbProductListings' = dbProductListings \cup
                    {[id |-> listingIds + 1, file_path |-> op.path]}
              /\ listingIds' = listingIds + 1
    /\ listingOps' = (listingOps (-) SetToBag({op}))
                        (+) SetToBag({[op EXCEPT !.phase = "refetch"]})
    /\ UNCHANGED <<listingFiles, productListings, viewVars, backOfficeVars, storeVars,
                   statusVars, draftVars>>

\* handleDeleteProductListing(listing.id, listing.file_path) of a listed row, up to the
\* answer of the row's delete: an error ends the handler in its catch block
handleDeleteProductListing(c, listing, fault) ==
    /\ listing \in productListings[c]
    /\ BagCardinality(listingOps) < MaxInflight
    /\ IF fault
         THEN UNCHANGED <<dbProductListings, listingOps>>
         ELSE /\ dbProductListings' = {row \in dbProductListings : row.id # listing.id}
              /\ listingOps' = listingOps (+) SetToBag({[client |-> c,
                                   kind |-> "delete", phase |-> "file",
                                   path |-> listing.file_path, id |-> listing.id]})
    /\ UNCHANGED <<listingFiles, productListings, listingIds, viewVars,
                   backOfficeVars, storeVars, statusVars, draftVars>>

\* deleteFile('listings', filePath): the outcome is not read by the handler
deleteFile(op, fault) ==
    /\ op \in BagToSet(listingOps)
    /\ op.kind = "delete" /\ op.phase = "file"
    /\ listingFiles' = IF fault THEN listingFiles ELSE listingFiles \ {op.path}
    /\ listingOps' = (listingOps (-) SetToBag({op}))
                        (+) SetToBag({[op EXCEPT !.phase = "refetch"]})
    /\ UNCHANGED <<dbProductListings, productListings, listingIds, viewVars,
                   backOfficeVars, storeVars, statusVars, draftVars>>

\* the end of both handlers: fetchProductListings is awaited, then the toast
refetchProductListings(op) ==
    /\ op \in BagToSet(listingOps)
    /\ op.phase = "refetch"
    /\ productListings' = [productListings EXCEPT ![op.client] = dbProductListings]
    /\ listingOps' = listingOps (-) SetToBag({op})
    /\ UNCHANGED <<dbProductListings, listingFiles, listingIds, viewVars,
                   backOfficeVars, storeVars, statusVars, draftVars>>

ListingOps ==
    [client : Clients, kind : {"export", "delete"},
     phase : {"insert", "file", "refetch"},
     path : {ListingPath(dateStr(now))}, id : 0..MaxListings]

\* The listing specification: two Admin sessions export the product listing and
\* delete listings on one day
ListingsInit ==
    /\ dbOrders = SampleOrders
    /\ dbOrderItems = SampleOrderItems
    /\ PagesInit
    /\ BackOfficeInit
    /\ DraftInit

ListingsNext ==
    \/ \E c \in Clients : fetchProductListings(c)
    \/ \E c \in Clients, fault \in BOOLEAN : handleExportProducts(c, fault)
    \/ \E op \in ListingOps, fault \in BOOLEAN : insertListing(op, fault)
    \/ \E c \in Clients, fault \in BOOLEAN :
          \E listing \in productListings[c] : handleDeleteProductListing(c, listing, fault)
    \/ \E op \in ListingOps, fault \in BOOLEAN : deleteFile(op, fault)
    \/ \E op \in ListingOps : refetchProductListings(op)

SpecListings == ListingsInit /\ [][ListingsNext]_vars

\* C30: every row of product_listings names a file that is in the listings bucket
EveryListingHasItsFile ==
    \A row \in dbProductListings : row.file_path \in listingFiles

====
